---- MODULE Spec2Model ----
(***************************************************************************)
(* A model of waapi_helpers/requests.py: the helper functions that wrap a  *)
(* connected WAAPI client (walk_wproj, get_object, create_objects,         *)
(* get_bus_guid_from_name, the bank inclusions, copy_properties) and the   *)
(* remote authoring application they talk to.                              *)
(*                                                                         *)
(* Python values are modelled as tagged records, so that the isinstance,   *)
(* len, `in` and subscript operations of the source keep their meaning on  *)
(* values of the wrong shape.  A list of strings (property names, type     *)
(* names, object names) is a PyList of TLA+ strings; a dict is a PyDict of *)
(* a function from its keys.                                               *)
(***************************************************************************)
EXTENDS Integers, Sequences, FiniteSets, TLC

\* Bounds of the model.
MaxObj == 4       \* objects in the remote project tree
MaxNames == 3     \* longest names/types list handed to create_objects

Objs == 1..MaxObj

---------------------------------------------------------------------------
\* Python values

None == [t |-> "None"]
PyStr(s) == [t |-> "str", str |-> s]
PyInt(n) == [t |-> "int", int |-> n]
PyList(q) == [t |-> "list", list |-> q]
PyDict(f) == [t |-> "dict", dict |-> f]

\* bool(x) of Python, as used by all(...)
Truthy(x) ==
    CASE x.t = "None" -> FALSE
      [] x.t = "str" -> x.str # ""
      [] x.t = "list" -> x.list # <<>>
      [] x.t = "dict" -> DOMAIN x.dict # {}
      [] x.t = "int" -> x.int # 0
      [] OTHER -> TRUE

\* Whether len(x) is defined (otherwise len raises TypeError)
HasLen(x) == x.t \in {"str", "list", "dict"}

PyLen(x) ==
    CASE x.t = "list" -> Len(x.list)
      [] x.t = "dict" -> Cardinality(DOMAIN x.dict)
      [] x.t = "str" -> Len(x.str)
      [] OTHER -> 0

Range(q) == {q[i] : i \in DOMAIN q}

---------------------------------------------------------------------------
\* The remote project: identifiers, paths and property values are strings.

Guid == <<"{G1}", "{G2}", "{G3}", "{G4}", "{G5}", "{G6}", "{G7}", "{G8}">>
Path == <<"\\Master-Mixer Hierarchy", "\\P2", "\\P3", "\\P4", "\\P5", "\\P6", "\\P7", "\\P8">>
ObjName == <<"N1", "N2", "N3", "N4", "N5", "N6", "N7", "N8">>
TypeNames == {"Sound", "ActorMixer"}

\* str.startswith('\\')
StartsWithBackslash(s) == s \in Range(Path)

\* The parent of every object of a tree: object 1 is its top, every other
\* object hangs under an earlier one.
TreeParents ==
    { f \in [Objs -> 0..MaxObj] :
        \A o \in Objs : IF o = 1 THEN f[o] = 0 ELSE f[o] \in 1..(o - 1) }

OwnNames == [o \in Objs |-> ObjName[o]]

\* The projects the walk is checked on: every object has an id, a type and a
\* name, the objects in `lacks` (at most one of them) have no '@Volume'
\* property, and the objects in `gone` have been deleted.  The top object is
\* an ActorMixer.
Projects ==
    { [parent |-> p, type |-> ty, name |-> OwnNames, lacks |-> l, gone |-> {}] :
        p \in TreeParents,
        ty \in { f \in [Objs -> TypeNames] : f[1] = "ActorMixer" },
        l \in {{}} \cup {{o} : o \in Objs} }

NoProject ==
    [parent |-> [o \in Objs |-> 0], type |-> [o \in Objs |-> "Sound"],
     name |-> OwnNames, lacks |-> {}, gone |-> {}]

HasProp(w, o, p) ==
    \/ p \in {"id", "type", "name"}
    \/ p = "@Volume" /\ o \notin w.lacks

PropVal(w, o, p) ==
    CASE p = "id" -> PyStr(Guid[o])
      [] p = "type" -> PyStr(w.type[o])
      [] p = "name" -> PyStr(w.name[o])
      [] OTHER -> PyStr("-6")

RECURSIVE SeqOfSet(_)
SeqOfSet(S) ==
    IF S = {} THEN <<>>
    ELSE LET m == CHOOSE x \in S : \A y \in S : x <= y
         IN <<m>> \o SeqOfSet(S \ {m})

ChildrenOf(w, o) == SeqOfSet({c \in Objs \ w.gone : w.parent[c] = o})

\* The object a 'from' clause names, 0 when there is none
Resolve(from) ==
    LET hit == { o \in Objs : IF from.key = "path" THEN Path[o] = from.v
                                                  ELSE Guid[o] = from.v }
    IN IF hit = {} THEN 0 ELSE CHOOSE o \in hit : TRUE

\* One entry of a 'return' list: the requested properties the object has
ObjEntry(w, o, props) ==
    PyDict([p \in {q \in Range(props) : HasProp(w, o, q)} |-> PropVal(w, o, p)])

\* ak.wwise.core.object.get as the remote application answers it: no answer
\* for an unknown or deleted object, else the selected objects' entries.
RemoteObjectGet(w, query, props) ==
    LET o == Resolve(query.from)
        sel == IF query.select = "children" THEN ChildrenOf(w, o) ELSE <<o>>
    IN IF o = 0 \/ o \in w.gone THEN None
       ELSE PyDict("return" :> PyList([i \in DOMAIN sel |-> ObjEntry(w, sel[i], props)]))

---------------------------------------------------------------------------
\* requests.py, private helpers

\* client is one of "None", "disconnected", "connected"
_check_client(client) == client = "connected"

_check_fields(obj, fields) ==
    IF obj.t # "dict" THEN FALSE
    ELSE \A f \in fields : f \in DOMAIN obj.dict

\* len(ret['return']) raises TypeError on a value without a length
_check_get_ret_raises(ret) ==
    _check_fields(ret, {"return"}) /\ ~HasLen(ret.dict["return"])

_check_get_ret(ret) ==
    _check_fields(ret, {"return"}) /\ PyLen(ret.dict["return"]) > 0

\* [exc, v]: the list, the ignored value itself, or ValueError
_ensure_str_list(x, ignore) ==
    IF ignore # None /\ x = ignore THEN [exc |-> "none", val |-> x]
    ELSE IF x.t = "str" THEN [exc |-> "none", val |-> PyList(<<x.str>>)]
    ELSE IF x.t = "list" THEN [exc |-> "none", val |-> PyList(x.list)]
    ELSE [exc |-> "ValueError", val |-> None]

\* The test its name promises: whether one of the values is None
_is_any_val_none_is_None(a, b) == a = None \/ b = None

\* not all(args)
_is_any_val_none(a, b) == ~(Truthy(a) /\ Truthy(b))

---------------------------------------------------------------------------
VARIABLES
    wproj,      \* the remote project
    pc,         \* where the running helper (or its generator) stands
    args,       \* the arguments of the call
    locals,     \* the local variables of the running helper
    stack,      \* walk_wproj: the suspended _walk_depth_first frames, innermost last
    yielded,    \* walk_wproj: the tuples handed to the consumer, in order, each with
                \* the id of its object and the index of the start it was reached from
    calls,      \* the remote calls issued so far, in order
    replies,    \* the remote answers to those calls, in order
    result,     \* the value returned by a helper that is not a generator
    exc,        \* the exception that left the helper, "none" when none did
    earlier     \* what an earlier, finished call did, kept to compare a later one with

vars == <<wproj, pc, args, locals, stack, yielded, calls, replies, result, exc, earlier>>

NoArgs == [op |-> "none"]
NoLocals == [none |-> TRUE]
NoEarlier == [op |-> "none"]

Idle ==
    /\ pc = "idle"
    /\ args = NoArgs
    /\ locals = NoLocals
    /\ stack = <<>>
    /\ yielded = <<>>
    /\ calls = <<>>
    /\ replies = <<>>
    /\ result = None
    /\ exc = "none"

Clients == {"None", "disconnected", "connected"}

---------------------------------------------------------------------------
\* walk_wproj and _walk_depth_first

\* One id, a path, a list of two ids, and the values that are None or empty
WalkStarts ==
    {PyStr(Guid[o]) : o \in Objs}
        \cup {PyStr(Path[2]), PyList(<<Guid[2], Guid[1]>>), PyStr(""), PyList(<<>>), None}

WalkProperties ==
    { None, PyStr("name"), PyList(<<"name", "id">>), PyList(<<"type", "@Volume", "name">>) }

WalkTypes ==
    { PyStr("any"), PyStr("ActorMixer"), PyList(<<"Sound">>),
      PyStr(""), PyList(<<>>), None }

\* The calls of walk_wproj that are tried: every combination of the above on a
\* connected client that gets as far as the loop over the starts, and with the
\* default properties those that end before it.
WalkArguments ==
    { a \in [op : {"walk_wproj"}, client : Clients, start : WalkStarts,
             properties : WalkProperties, types : WalkTypes] :
        \/ /\ a.client = "connected"
           /\ (Truthy(a.start) /\ Truthy(a.types)) \/ a.properties = None
        \/ /\ a.client # "connected"
           /\ a.properties = None
           /\ a.types = PyStr("any")
           /\ a.start \in {PyStr(Guid[1]), None} }

\* properties defaults to ['id']
DefaultProperties(properties) ==
    IF properties = None THEN PyList(<<"id">>) ELSE properties

AppendIfMissing(q, p) == IF p \in Range(q) THEN q ELSE Append(q, p)

\* for p in 'id', 'type': if p not in props: props.append(p)
AddIdType(props) == AppendIfMissing(AppendIfMissing(props, "id"), "type")

\* ret_props bound to the very list that 'id' and 'type' are then appended to
RetProps_aliased(props) == AddIdType(props)

\* ret_props = copy.copy(props), taken before 'id' and 'type' are appended
RetProps(props) == props

\* The body of walk_wproj up to its loop, run by the first next(): the exception
\* it raises, whether it returns at once, and the locals it leaves.
WalkPrologue(a) ==
    LET properties == DefaultProperties(a.properties)
        sl == _ensure_str_list(a.start, None)
        pl == _ensure_str_list(properties, None)
        tl == _ensure_str_list(a.types, PyStr("any"))
        none == [exc |-> "none", stop |-> TRUE, locals |-> NoLocals]
    IN IF ~_check_client(a.client) THEN [none EXCEPT !.exc = "ValueError"]
       ELSE IF _is_any_val_none(a.start, a.types) THEN none
       ELSE IF sl.exc # "none" THEN [none EXCEPT !.exc = sl.exc]
       ELSE IF pl.exc # "none" THEN [none EXCEPT !.exc = pl.exc]
       ELSE IF tl.exc # "none" THEN [none EXCEPT !.exc = tl.exc]
       ELSE [exc |-> "none", stop |-> FALSE,
             locals |-> [start_list |-> sl.val.list,
                         props |-> AddIdType(pl.val.list),
                         ret_props |-> RetProps(pl.val.list),
                         req_types |-> tl.val,
                         next_start |-> 1]]

\* The query of _walk_depth_first for one start
WalkQuery(start) ==
    [from |-> IF StartsWithBackslash(start) THEN [key |-> "path", v |-> start]
                                            ELSE [key |-> "id", v |-> start],
     select |-> "children"]

ObjectGetCall(query, props) ==
    [uri |-> "ak.wwise.core.object.get", query |-> query, options |-> props]

\* The type of the object not looked at
TypePasses_unfiltered(types, obj) == TRUE

\* types == 'any' or obj['type'] in types
TypePasses(types, obj) ==
    \/ types = PyStr("any")
    \/ /\ types.t = "list"
       /\ obj.dict["type"].str \in Range(types.list)

\* tuple(obj[p] for p in ret_props) raises KeyError on a key obj lacks
TupleRaises(obj, ret_props) == \E p \in Range(ret_props) : p \notin DOMAIN obj.dict

TupleOf(obj, ret_props) == [i \in DOMAIN ret_props |-> obj.dict[ret_props[i]]]

\* The frame a new _walk_depth_first level leaves on the stack: none when
\* _check_get_ret fails, else its loop over ret['return'].
EnterLevel(ret) ==
    IF _check_get_ret(ret) THEN <<[objs |-> ret.dict["return"].list, phase |-> "check"]>>
    ELSE <<>>

Top == stack[Len(stack)]
Below == SubSeq(stack, 1, Len(stack) - 1)

\* The loop over the siblings given up once the recursive walk has returned
PushLevel_drops_siblings(below, rest, level) == below \o level

\* The recursive walk run after the loop over the siblings instead of inside it
PushLevel_after_siblings(below, rest, level) == below \o level \o <<rest>>

\* The frames after the recursive call of the loop body: the level of the child
\* runs first, the rest of the loop over its siblings after it returns
PushLevel(below, rest, level) == Append(below, rest) \o level

\* An interpreter that allows two levels of _walk_depth_first only
RecursionLimit_shallow == MaxObj - 2

\* The interpreter's limit on nested frames, here in levels of _walk_depth_first
\* (sys.getrecursionlimit(), 1000 by default): deeper than any tree of the model
RecursionLimit == MaxObj + 2

\* walk_wproj(...) is called with one of the arguments A: a generator object is
\* made, no line of the body runs
WalkCallWith(A) ==
    /\ Idle
    /\ args' \in A
    /\ pc' = "created"
    /\ UNCHANGED <<earlier, wproj, locals, stack, yielded, calls, replies, result, exc>>

WalkCall == WalkCallWith(WalkArguments)

\* The consumer's first next(): the body runs up to its loop
WalkFirstNext ==
    /\ pc = "created"
    /\ LET pr == WalkPrologue(args)
       IN /\ exc' = pr.exc
          /\ locals' = pr.locals
          /\ pc' = IF pr.exc # "none" THEN "raised"
                   ELSE IF pr.stop THEN "done" ELSE "running"
    /\ UNCHANGED <<earlier, wproj, args, stack, yielded, calls, replies, result>>

\* The consumer's next() on a generator suspended at its yield
WalkResume ==
    /\ pc = "suspended"
    /\ pc' = "running"
    /\ UNCHANGED <<earlier, wproj, args, locals, stack, yielded, calls, replies, result, exc>>

\* The generator runs at the head of the loop over start_list, a start left
AtNextStart ==
    /\ pc = "running"
    /\ stack = <<>>
    /\ locals.next_start <= Len(locals.start_list)

\* The generator runs at the recursive call of the innermost loop body
AtRecursion ==
    /\ pc = "running"
    /\ stack # <<>>
    /\ Top.phase = "recurse"

\* for start in start_list: yield from _walk_depth_first(client, start, ...)
WalkFetchStart ==
    /\ AtNextStart
    /\ LET query == WalkQuery(locals.start_list[locals.next_start])
           ret == RemoteObjectGet(wproj, query, locals.props)
       IN /\ calls' = Append(calls, ObjectGetCall(query, locals.props))
          /\ replies' = Append(replies, ret)
          /\ stack' = EnterLevel(ret)
    /\ locals' = [locals EXCEPT !.next_start = @ + 1]
    /\ UNCHANGED <<earlier, wproj, pc, args, yielded, result, exc>>

\* if types == 'any' or obj['type'] in types: yield tuple(obj[p] for p in ret_props)
WalkVisit ==
    /\ pc = "running"
    /\ stack # <<>>
    /\ Top.phase = "check"
    /\ Top.objs # <<>>
    /\ LET obj == Head(Top.objs)
           passes == TypePasses(locals.req_types, obj)
           raises == passes /\ TupleRaises(obj, locals.ret_props)
       IN /\ pc' = IF raises THEN "raised" ELSE IF passes THEN "suspended" ELSE "running"
          /\ exc' = IF raises THEN "KeyError" ELSE exc
          /\ yielded' = IF passes /\ ~raises
                        THEN Append(yielded, [of |-> obj.dict["id"].str,
                                              start |-> locals.next_start - 1,
                                              tuple |-> TupleOf(obj, locals.ret_props)])
                        ELSE yielded
          /\ stack' = IF raises THEN stack
                      ELSE Append(Below, [Top EXCEPT !.phase = "recurse"])
    /\ UNCHANGED <<earlier, wproj, args, locals, calls, replies, result>>

\* yield from _walk_depth_first(client, obj['id'], props, ret_props, types);
\* the interpreter raises RecursionError where the nesting passes its limit
WalkFetchChild ==
    /\ AtRecursion
    /\ IF Len(stack) >= RecursionLimit
       THEN /\ pc' = "raised"
            /\ exc' = "RecursionError"
            /\ UNCHANGED <<stack, calls, replies>>
       ELSE LET obj == Head(Top.objs)
                query == WalkQuery(obj.dict["id"].str)
                ret == RemoteObjectGet(wproj, query, locals.props)
            IN /\ calls' = Append(calls, ObjectGetCall(query, locals.props))
               /\ replies' = Append(replies, ret)
               /\ stack' = PushLevel(Below, [objs |-> Tail(Top.objs), phase |-> "check"],
                                      EnterLevel(ret))
               /\ UNCHANGED <<pc, exc>>
    /\ UNCHANGED <<earlier, wproj, args, locals, yielded, result>>

\* The loop over ret['return'] of the innermost level is over: it returns
WalkReturn ==
    /\ pc = "running"
    /\ stack # <<>>
    /\ Top.phase = "check"
    /\ Top.objs = <<>>
    /\ stack' = Below
    /\ UNCHANGED <<earlier, wproj, pc, args, locals, yielded, calls, replies, result, exc>>

\* The loop over start_list is over: the generator is exhausted
WalkStop ==
    /\ pc = "running"
    /\ stack = <<>>
    /\ locals.next_start > Len(locals.start_list)
    /\ pc' = "done"
    /\ UNCHANGED <<earlier, wproj, args, locals, stack, yielded, calls, replies, result, exc>>

InitWalk ==
    /\ wproj \in Projects
    /\ Idle
    /\ earlier = NoEarlier

NextWalk ==
    \/ WalkCall
    \/ WalkFirstNext
    \/ WalkResume
    \/ WalkFetchStart
    \/ WalkVisit
    \/ WalkFetchChild
    \/ WalkReturn
    \/ WalkStop

SpecWalk == InitWalk /\ [][NextWalk]_vars

---------------------------------------------------------------------------
\* walk_wproj over a children relation that need not be a tree

\* Every object names any object, itself too, as its parent, or none: the
\* children relation has trees and cycles.  All objects are Sounds and have
\* every property.
LoopedProjects ==
    { [parent |-> p, type |-> [o \in Objs |-> "Sound"], name |-> OwnNames,
       lacks |-> {}, gone |-> {}] :
        p \in [Objs -> 0..MaxObj] }

LoopedArguments ==
    [op : {"walk_wproj"}, client : {"connected"},
     start : {PyStr(Guid[1]), PyList(<<Guid[2], Guid[1]>>)},
     properties : {None, PyList(<<"type", "@Volume", "name">>)},
     types : {PyStr("any"), PyList(<<"ActorMixer">>)}]

WalkCallLooped == WalkCallWith(LoopedArguments)

InitLooped ==
    /\ wproj \in LoopedProjects
    /\ Idle
    /\ earlier = NoEarlier

NextLooped ==
    \/ WalkCallLooped
    \/ WalkFirstNext
    \/ WalkResume
    \/ WalkFetchStart
    \/ WalkVisit
    \/ WalkFetchChild
    \/ WalkReturn
    \/ WalkStop

\* The consumer asks for the next tuple until the iterator ends, and the remote
\* application answers every call
SpecLooped == InitLooped /\ [][NextLooped]_vars /\ WF_vars(NextLooped)

---------------------------------------------------------------------------
\* walk_wproj with a consumer that deletes objects as it goes, the way
\* examples/remove_empty_events.py does

DeletingProjects == { w \in Projects : w.lacks \in {{}, {3}} }

DeletingArguments ==
    [op : {"walk_wproj"}, client : {"connected"},
     start : {PyStr(Guid[1]), PyList(<<Guid[2], Guid[1]>>)},
     properties : {None, PyList(<<"id", "@Volume">>)},
     types : {PyStr("any"), PyList(<<"Sound">>)}]

WalkCallDeleting == WalkCallWith(DeletingArguments)

\* The objects under object o of project w, o itself not counted
RECURSIVE UnderObj(_, _)
UnderObj(w, o) ==
    LET kids == {c \in Objs : w.parent[c] = o}
    IN kids \cup UNION {UnderObj(w, c) : c \in kids}

\* ak.wwise.core.object.delete as the remote application carries it out: the
\* object goes, and all that is under it
RemoteObjectDelete(w, o) == [w EXCEPT !.gone = @ \cup {o} \cup UnderObj(w, o)]

\* delete_object(client, guid), called by the consumer between two next() on
\* the object of the tuple it was handed last
ConsumerDelete ==
    /\ pc = "suspended"
    /\ LET guid == yielded[Len(yielded)].of
           o == CHOOSE x \in Objs : Guid[x] = guid
       IN /\ o \notin wproj.gone
          /\ calls' = Append(calls, [uri |-> "ak.wwise.core.object.delete",
                                      query |-> [object |-> guid]])
          /\ replies' = Append(replies, None)
          /\ wproj' = RemoteObjectDelete(wproj, o)
    /\ UNCHANGED <<earlier, pc, args, locals, stack, yielded, result, exc>>

InitDeleting ==
    /\ wproj \in DeletingProjects
    /\ Idle
    /\ earlier = NoEarlier

NextDeleting ==
    \/ WalkCallDeleting
    \/ WalkFirstNext
    \/ WalkResume
    \/ ConsumerDelete
    \/ WalkFetchStart
    \/ WalkVisit
    \/ WalkFetchChild
    \/ WalkReturn
    \/ WalkStop

\* The consumer asks for the next tuple until the iterator ends, and the remote
\* application answers every call
SpecDeleting == InitDeleting /\ [][NextDeleting]_vars /\ WF_vars(NextDeleting)

---------------------------------------------------------------------------
\* get_bus_guid_from_name

BusTypes == {"Bus", "AuxBus"}
BusNames == {"Master Audio Bus", "Rev"}

\* The projects a bus is looked up in: object 1 is the Master-Mixer Hierarchy,
\* the objects under it are buses and auxiliary buses, two of which may bear the
\* same name.
BusProjects ==
    { [parent |-> p, type |-> ty, name |-> nm, lacks |-> {}, gone |-> {}] :
        p \in TreeParents,
        ty \in { f \in [Objs -> BusTypes \cup {"WorkUnit"}] :
                   \A o \in Objs : (f[o] = "WorkUnit") = (o = 1) },
        nm \in { f \in [Objs -> BusNames \cup {"Master-Mixer Hierarchy"}] :
                   \A o \in Objs : (f[o] = "Master-Mixer Hierarchy") = (o = 1) } }

BusNameArguments == {PyStr("Master Audio Bus"), PyStr("Reverb"), None}

\* get_bus_guid_from_name(client, bus_name) up to the call of walk_wproj in the
\* head of its loop, which makes the generator
BusCall ==
    /\ Idle
    /\ \E c \in Clients, n \in BusNameArguments :
         args' = [op |-> "get_bus_guid_from_name", client |-> c, bus_name |-> n,
                  start |-> PyStr("\\Master-Mixer Hierarchy"),
                  properties |-> PyList(<<"id", "name">>),
                  types |-> PyList(<<"Bus">>)]
    /\ pc' = "created"
    /\ UNCHANGED <<earlier, wproj, locals, stack, yielded, calls, replies, result, exc>>

\* for guid, name in ...: if name == bus_name: return guid
BusLoopBody ==
    /\ pc = "suspended"
    /\ args.op = "get_bus_guid_from_name"
    /\ LET guid == yielded[Len(yielded)].tuple[1]
           name == yielded[Len(yielded)].tuple[2]
       IN IF name = args.bus_name
          THEN /\ result' = guid
               /\ pc' = "returned"
          ELSE /\ pc' = "running"
               /\ UNCHANGED result
    /\ UNCHANGED <<earlier, wproj, args, locals, stack, yielded, calls, replies, exc>>

\* The loop is over: return None
BusReturnNone ==
    /\ pc = "done"
    /\ args.op = "get_bus_guid_from_name"
    /\ result' = None
    /\ pc' = "returned"
    /\ UNCHANGED <<earlier, wproj, args, locals, stack, yielded, calls, replies, exc>>

InitBus ==
    /\ wproj \in BusProjects
    /\ Idle
    /\ earlier = NoEarlier

NextBus ==
    \/ BusCall
    \/ WalkFirstNext
    \/ BusLoopBody
    \/ BusReturnNone
    \/ WalkFetchStart
    \/ WalkVisit
    \/ WalkFetchChild
    \/ WalkReturn
    \/ WalkStop

SpecBus == InitBus /\ [][NextBus]_vars

---------------------------------------------------------------------------
\* get_bank_inclusions_guids, set_bank_inclusions

BankGuid == "{B1}"
UnknownGuid == "{G0}"

\* The remote application's sound banks: the one bank there is, and the
\* inclusions it holds, each a map with an 'object' and a 'filter'.
Inclusion(guid, filter) == PyDict(("object" :> PyStr(guid)) @@ ("filter" :> PyList(filter)))

BankProjects ==
    { [banks |-> {BankGuid}, inclusions |-> q] :
        q \in {<<>>, <<Inclusion(Guid[2], <<"events">>)>>,
               <<Inclusion(Guid[3], <<"media">>), Inclusion(Guid[1], <<"events">>)>>} }

BankArguments == {PyStr(BankGuid), PyStr(UnknownGuid)}

InclusionGuids ==
    { <<>>, <<Guid[1]>>, <<Guid[2], Guid[1]>>, <<Guid[1], Guid[2]>>,
      <<Guid[3], Guid[1], Guid[2]>>, <<Guid[2], UnknownGuid>> }

InclusionFilters == {None, PyList(<<"events">>)}

\* The default of inclusion_op taken for 'add'
InclusionOpDefault_add == "add"

\* inclusion_op: _InclusionOperation = 'replace'
InclusionOpDefault == "replace"

\* if inclusion_filter is None: inclusion_filter = ['events', 'structures', 'media']
InclusionFilterOf(inclusion_filter) ==
    IF inclusion_filter = None THEN <<"events", "structures", "media">>
    ELSE inclusion_filter.list

SetInclusionsCall(bank_guid, inclusion_guids, inclusion_op, inclusion_filter) ==
    [uri |-> "ak.wwise.core.soundbank.setInclusions",
     query |-> PyDict(("operation" :> PyStr(inclusion_op)) @@ ("soundbank" :> bank_guid)
                      @@ ("inclusions" :>
                            PyList([i \in DOMAIN inclusion_guids |->
                                      Inclusion(inclusion_guids[i], inclusion_filter)])))]

GetInclusionsCall(bank) ==
    [uri |-> "ak.wwise.core.soundbank.getInclusions", query |-> PyDict("soundbank" :> bank)]

\* The inclusions of q whose object is none of those in objs
WithoutObjects(q, objs) == SelectSeq(q, LAMBDA e : e.dict["object"] \notin objs)

\* ak.wwise.core.soundbank.setInclusions as the remote application answers it:
\* nothing is done and nothing answered for an unknown bank or object, else the
\* bank's inclusions are replaced, added to or taken from.  [w, ret]
RemoteSetInclusions(w, query) ==
    LET given == query.dict["inclusions"].list
        objs == {given[i].dict["object"] : i \in DOMAIN given}
        op == query.dict["operation"].str
        known == /\ query.dict["soundbank"].str \in w.banks
                 /\ objs \subseteq {PyStr(Guid[o]) : o \in Objs}
    IN IF ~known THEN [w |-> w, ret |-> None]
       ELSE [w |-> [w EXCEPT !.inclusions =
                      CASE op = "replace" -> given
                        [] op = "add" -> WithoutObjects(@, objs) \o given
                        [] OTHER -> WithoutObjects(@, objs)],
             ret |-> PyDict(<<>>)]

\* ak.wwise.core.soundbank.getInclusions as the remote application answers it
RemoteGetInclusions(w, query) ==
    IF query.dict["soundbank"].str \in w.banks
    THEN PyDict("inclusions" :> PyList(w.inclusions))
    ELSE None

\* Answers the client may hand back besides the application's own
BankOddReplies ==
    << None,
      PyDict("error" :> PyStr("unknown bank")),
      PyDict("inclusions" :> None),
      PyDict("inclusions" :> PyList(<<PyDict("filter" :> PyList(<<"events">>))>>)) >>

\* What get_bank_inclusions_guids does with the answer ret: [exc, val]
GetBankInclusionsResult(ret) ==
    IF _check_fields(ret, {"inclusions"})
    THEN LET l == ret.dict["inclusions"]
         IN IF l.t = "list"
            THEN IF \E i \in DOMAIN l.list : l.list[i].t # "dict"
                 THEN [exc |-> "TypeError", val |-> None]
                 ELSE IF \E i \in DOMAIN l.list : "object" \notin DOMAIN l.list[i].dict
                 THEN [exc |-> "KeyError", val |-> None]
                 ELSE [exc |-> "none",
                       val |-> PyList([i \in DOMAIN l.list |-> l.list[i].dict["object"]])]
            ELSE IF HasLen(l) /\ PyLen(l) = 0
            THEN [exc |-> "none", val |-> PyList(<<>>)]
            ELSE [exc |-> "TypeError", val |-> None]
    ELSE [exc |-> "none", val |-> PyList(<<>>)]

\* set_bank_inclusions(...) up to and including client.call
SetBankInclusionsCall ==
    /\ Idle
    /\ \E b \in BankArguments, g \in InclusionGuids, f \in InclusionFilters,
          op \in {"default", "add", "remove"} :
         /\ args' = [op |-> "set_bank_inclusions", client |-> "connected", bank_guid |-> b,
                     inclusion_guids |-> g, inclusion_op |-> op, inclusion_filter |-> f]
         /\ calls' = <<SetInclusionsCall(b, g,
                          IF op = "default" THEN InclusionOpDefault ELSE op,
                          InclusionFilterOf(f))>>
    /\ pc' = "awaiting"
    /\ UNCHANGED <<earlier, wproj, locals, stack, yielded, replies, result, exc>>

\* client.call returns; set_bank_inclusions drops the answer and returns None
SetBankInclusionsReply ==
    /\ pc = "awaiting"
    /\ args.op = "set_bank_inclusions"
    /\ LET r == RemoteSetInclusions(wproj, calls[1].query)
       IN /\ wproj' = r.w
          /\ replies' = <<r.ret>>
    /\ pc' = "returned"
    /\ UNCHANGED <<earlier, args, locals, stack, yielded, calls, result, exc>>

\* get_bank_inclusions_guids(client, bank) up to and including client.call,
\* as the first call or after a set_bank_inclusions that has returned
GetBankInclusionsCall ==
    /\ \/ Idle /\ earlier' = earlier
       \/ /\ pc = "returned"
          /\ args.op = "set_bank_inclusions"
          /\ earlier' = [op |-> "set_bank_inclusions", args |-> args, reply |-> replies[1]]
    /\ \E b \in BankArguments :
         /\ args' = [op |-> "get_bank_inclusions_guids", client |-> "connected", bank |-> b]
         /\ calls' = Append(calls, GetInclusionsCall(b))
    /\ pc' = "awaiting"
    /\ UNCHANGED <<wproj, locals, stack, yielded, replies, result, exc>>

\* client.call returns and get_bank_inclusions_guids builds its list
GetBankInclusionsReply ==
    /\ pc = "awaiting"
    /\ args.op = "get_bank_inclusions_guids"
    /\ \E k \in 0..Len(BankOddReplies) :
         LET ret == IF k = 0 THEN RemoteGetInclusions(wproj, calls[Len(calls)].query)
                             ELSE BankOddReplies[k]
             r == GetBankInclusionsResult(ret)
         IN /\ replies' = Append(replies, ret)
            /\ exc' = r.exc
            /\ result' = r.val
            /\ pc' = IF r.exc # "none" THEN "raised" ELSE "returned"
    /\ UNCHANGED <<earlier, wproj, args, locals, stack, yielded, calls>>

InitBank ==
    /\ wproj \in BankProjects
    /\ Idle
    /\ earlier = NoEarlier

NextBank ==
    \/ SetBankInclusionsCall
    \/ SetBankInclusionsReply
    \/ GetBankInclusionsCall
    \/ GetBankInclusionsReply

SpecBank == InitBank /\ [][NextBank]_vars

---------------------------------------------------------------------------
\* get_object

GetObjectTargets ==
    {PyStr(Guid[o]) : o \in 1..(MaxObj + 1)} \cup {PyStr(Path[1]), None}

GetObjectProperties ==
    { None, PyStr("name"), PyList(<<"id", "name">>), PyList(<<"name", "@Volume", "name">>) }

\* query = {'from': {from_key: [guid_or_path]}}
GetObjectQuery(guid_or_path) ==
    [from |-> IF StartsWithBackslash(guid_or_path) THEN [key |-> "path", v |-> guid_or_path]
                                                   ELSE [key |-> "id", v |-> guid_or_path],
     select |-> "self"]

\* Answers the client may hand back besides the application's own: none at all,
\* something that is no map, maps without 'return', and 'return' values that
\* are empty or no list of maps.
OddReplies ==
    << None,
      PyStr("error"),
      PyDict("error" :> PyStr("unknown object")),
      PyDict("return" :> PyList(<<>>)),
      PyDict("return" :> PyStr("")),
      PyDict("return" :> None),
      PyDict("return" :> PyInt(0)),
      PyDict("return" :> PyStr("error")),
      PyDict("return" :> PyList(<<PyStr("error")>>)),
      PyDict("return" :> PyList(<<None>>)),
      PyDict("return" :> PyDict("id" :> PyStr(Guid[1]))) >>

\* x[0]: [exc, v]
Subscript0(x) ==
    CASE x.t = "list" -> [exc |-> "none", val |-> x.list[1]]
      [] x.t = "str" -> [exc |-> "none", val |-> PyStr(x.str)]
      [] x.t = "dict" -> [exc |-> "KeyError", val |-> None]
      [] OTHER -> [exc |-> "TypeError", val |-> None]

\* obj.get(p, None)
DictGet(obj, p) == IF p \in DOMAIN obj.dict THEN obj.dict[p] ELSE None

PyTuple(q) == [t |-> "tuple", tuple |-> q]

\* What get_object does with the answer ret: [exc, v]
GetObjectResult(ret, props) ==
    IF _check_get_ret_raises(ret) THEN [exc |-> "TypeError", val |-> None]
    ELSE IF _check_get_ret(ret)
    THEN LET first == Subscript0(ret.dict["return"])
         IN IF first.exc # "none" THEN [exc |-> first.exc, val |-> None]
            ELSE IF first.val.t # "dict" THEN [exc |-> "AttributeError", val |-> None]
            ELSE [exc |-> "none",
                  val |-> PyTuple([i \in DOMAIN props |-> DictGet(first.val, props[i])])]
    ELSE [exc |-> "none", val |-> PyTuple([i \in DOMAIN props |-> None])]

\* get_object(...) up to and including client.call
GetObjectCall ==
    /\ Idle
    /\ \E c \in Clients, g \in GetObjectTargets, p \in GetObjectProperties :
         LET a == [op |-> "get_object", client |-> c, guid_or_path |-> g, properties |-> p]
             pl == _ensure_str_list(DefaultProperties(p), None)
             failed == IF ~_check_client(c) \/ g = None THEN "AssertionError" ELSE pl.exc
         IN /\ args' = a
            /\ exc' = failed
            /\ pc' = IF failed # "none" THEN "raised" ELSE "awaiting"
            /\ locals' = IF failed # "none" THEN locals ELSE [props |-> pl.val.list]
            /\ calls' = IF failed # "none" THEN calls
                        ELSE <<ObjectGetCall(GetObjectQuery(g.str), pl.val.list)>>
    /\ UNCHANGED <<earlier, wproj, stack, yielded, replies, result>>

\* client.call returns and get_object builds its tuple
GetObjectReply ==
    /\ pc = "awaiting"
    /\ args.op = "get_object"
    /\ \E k \in 0..Len(OddReplies) :
         LET ret == IF k = 0 THEN RemoteObjectGet(wproj, calls[1].query, locals.props)
                             ELSE OddReplies[k]
             r == GetObjectResult(ret, locals.props)
         IN /\ replies' = <<ret>>
            /\ exc' = r.exc
            /\ result' = r.val
            /\ pc' = IF r.exc # "none" THEN "raised" ELSE "returned"
    /\ UNCHANGED <<earlier, wproj, args, locals, stack, yielded, calls>>

InitGet ==
    /\ wproj \in Projects
    /\ Idle
    /\ earlier = NoEarlier

NextGet ==
    \/ GetObjectCall
    \/ GetObjectReply

SpecGet == InitGet /\ [][NextGet]_vars

---------------------------------------------------------------------------
\* get_property_names, get_property_value, set_property_value, copy_properties

\* A reference: the value of a property that names another object
Reference(o) == PyDict(("id" :> PyStr(Guid[o])) @@ ("name" :> PyStr(ObjName[o])))

\* The properties an object of the remote project may have: their names as
\* the application lists them, and the value of each.
PropertySheets ==
    { [names |-> <<"Volume", "Pitch", "OutputBus">>,
       val |-> ("Volume" :> PyInt(-6)) @@ ("Pitch" :> PyInt(0)) @@ ("OutputBus" :> Reference(1))],
      [names |-> <<"OutputBus", "Volume">>,
       val |-> ("OutputBus" :> Reference(2)) @@ ("Volume" :> PyInt(0))],
      [names |-> <<"Pitch", "Lowpass">>,
       val |-> ("Pitch" :> PyInt(100)) @@ ("Lowpass" :> PyInt(5))],
      [names |-> <<>>, val |-> <<>>] }

CopyObjs == {1, 2}

CopyProjects == { [sheet |-> f] : f \in [CopyObjs -> PropertySheets] }

CopyGuids == {Guid[o] : o \in CopyObjs} \cup {UnknownGuid}

\* The object of a guid, 0 when there is none
CopyObjOf(guid) ==
    IF \E o \in CopyObjs : Guid[o] = guid THEN CHOOSE o \in CopyObjs : Guid[o] = guid ELSE 0

PropertyNamesCall(obj_guid) ==
    [uri |-> "ak.wwise.core.object.getPropertyAndReferenceNames",
     query |-> PyDict("object" :> PyStr(obj_guid))]

SetPropertyCall(obj_guid, property_name, value) ==
    [uri |-> "ak.wwise.core.object.setProperty",
     query |-> PyDict(("object" :> PyStr(obj_guid)) @@ ("property" :> PyStr(property_name))
                      @@ ("value" :> value))]

\* ak.wwise.core.object.getPropertyAndReferenceNames as the application answers it
RemotePropertyNames(w, query) ==
    LET o == CopyObjOf(query.dict["object"].str)
    IN IF o = 0 THEN None
       ELSE PyDict("return" :> PyList([i \in DOMAIN w.sheet[o].names |->
                                        PyStr(w.sheet[o].names[i])]))

\* ak.wwise.core.object.get for one property of one object: the application
\* answers with the object's entry, which holds the property when it resolves
\* the name asked for and the object has it
RemotePropertyGet(w, query, prop, resolved) ==
    LET o == CopyObjOf(query.from.v)
    IN IF o = 0 THEN None
       ELSE PyDict("return" :> PyList(<<
                PyDict(IF resolved /\ prop \in DOMAIN w.sheet[o].val
                       THEN prop :> w.sheet[o].val[prop] ELSE <<>>) >>))

\* ak.wwise.core.object.setProperty as the application answers it: [w, ret]
RemoteSetProperty(w, query) ==
    LET o == CopyObjOf(query.dict["object"].str)
        prop == query.dict["property"].str
    IN IF o = 0 \/ prop \notin DOMAIN w.sheet[o].val THEN [w |-> w, ret |-> None]
       ELSE [w |-> [w EXCEPT !.sheet[o].val[prop] = query.dict["value"]],
             ret |-> PyDict(<<>>)]

\* What get_property_names returns on the answer ret, as the set made of it
PropertyNamesResult(ret) ==
    IF _check_fields(ret, {"return"})
    THEN {ret.dict["return"].list[i].str : i \in DOMAIN ret.dict["return"].list}
    ELSE {}

\* A value that is not true is not passed on
SetPropertySkips_falsy(value) == ~Truthy(value)

\* set_property_value: if value is None: return
SetPropertySkips(value) == value = None

\* isinstance(v, dict)
IsReference(v) == v.t = "dict"

\* copy_properties(client, copy_from_guid, assign_to_guid) up to the client.call
\* of its first get_property_names
CopyPropertiesCall ==
    /\ Idle
    /\ \E src \in CopyGuids, dst \in CopyGuids :
         /\ args' = [op |-> "copy_properties", client |-> "connected",
                     copy_from_guid |-> src, assign_to_guid |-> dst]
         /\ calls' = <<PropertyNamesCall(src)>>
    /\ locals' = [at |-> "src_names", src_names |-> {}, todo |-> {}, prop |-> ""]
    /\ pc' = "awaiting"
    /\ UNCHANGED <<earlier, wproj, stack, yielded, replies, result, exc>>

\* The first get_property_names returns, the second one calls
CopySrcNames ==
    /\ pc = "awaiting"
    /\ args.op = "copy_properties"
    /\ locals.at = "src_names"
    /\ LET ret == RemotePropertyNames(wproj, calls[Len(calls)].query)
       IN /\ replies' = Append(replies, ret)
          /\ locals' = [locals EXCEPT !.at = "target_names",
                                      !.src_names = PropertyNamesResult(ret)]
    /\ calls' = Append(calls, PropertyNamesCall(args.assign_to_guid))
    /\ UNCHANGED <<earlier, wproj, pc, args, stack, yielded, result, exc>>

\* The second get_property_names returns: the loop is over the names in both
CopyTargetNames ==
    /\ pc = "awaiting"
    /\ args.op = "copy_properties"
    /\ locals.at = "target_names"
    /\ LET ret == RemotePropertyNames(wproj, calls[Len(calls)].query)
       IN /\ replies' = Append(replies, ret)
          /\ locals' = [locals EXCEPT !.at = "loop",
                                      !.todo = locals.src_names \cap PropertyNamesResult(ret)]
    /\ pc' = "running"
    /\ UNCHANGED <<earlier, wproj, args, stack, yielded, calls, result, exc>>

\* for prop in ...: the set hands out its names in an order of its own;
\* get_property_value calls get_object for the one it hands out
CopyNextProp ==
    /\ pc = "running"
    /\ args.op = "copy_properties"
    /\ locals.todo # {}
    /\ \E prop \in locals.todo :
         /\ locals' = [locals EXCEPT !.at = "value", !.prop = prop]
         /\ calls' = Append(calls,
                ObjectGetCall(GetObjectQuery(args.copy_from_guid), <<prop>>))
    /\ pc' = "awaiting"
    /\ UNCHANGED <<earlier, wproj, args, stack, yielded, replies, result, exc>>

\* get_object returns its tuple, v is its one element; a value to be set goes
\* into the client.call of set_property_value, any other ends this round
CopyValue ==
    /\ pc = "awaiting"
    /\ args.op = "copy_properties"
    /\ locals.at = "value"
    /\ \E resolved \in BOOLEAN :
         LET ret == RemotePropertyGet(wproj, calls[Len(calls)].query, locals.prop, resolved)
             r == GetObjectResult(ret, <<locals.prop>>)
             v == r.val.tuple[1]
         IN /\ replies' = Append(replies, ret)
            /\ IF r.exc # "none"
               THEN /\ exc' = r.exc
                    /\ pc' = "raised"
                    /\ UNCHANGED <<locals, calls>>
               ELSE IF IsReference(v) \/ SetPropertySkips(v)
               THEN /\ locals' = [locals EXCEPT !.at = "loop", !.todo = @ \ {locals.prop}]
                    /\ pc' = "running"
                    /\ UNCHANGED <<calls, exc>>
               ELSE /\ locals' = [locals EXCEPT !.at = "set"]
                    /\ calls' = Append(calls,
                           SetPropertyCall(args.assign_to_guid, locals.prop, v))
                    /\ UNCHANGED <<pc, exc>>
    /\ UNCHANGED <<earlier, wproj, args, stack, yielded, result>>

\* The client.call of set_property_value returns
CopySet ==
    /\ pc = "awaiting"
    /\ args.op = "copy_properties"
    /\ locals.at = "set"
    /\ LET r == RemoteSetProperty(wproj, calls[Len(calls)].query)
       IN /\ wproj' = r.w
          /\ replies' = Append(replies, r.ret)
    /\ locals' = [locals EXCEPT !.at = "loop", !.todo = @ \ {locals.prop}]
    /\ pc' = "running"
    /\ UNCHANGED <<earlier, args, stack, yielded, calls, result, exc>>

\* The loop is over
CopyReturn ==
    /\ pc = "running"
    /\ args.op = "copy_properties"
    /\ locals.todo = {}
    /\ pc' = "returned"
    /\ UNCHANGED <<earlier, wproj, args, locals, stack, yielded, calls, replies, result, exc>>

InitCopy ==
    /\ wproj \in CopyProjects
    /\ Idle
    /\ earlier = NoEarlier

NextCopy ==
    \/ CopyPropertiesCall
    \/ CopySrcNames
    \/ CopyTargetNames
    \/ CopyNextProp
    \/ CopyValue
    \/ CopySet
    \/ CopyReturn

SpecCopy == InitCopy /\ [][NextCopy]_vars

---------------------------------------------------------------------------
\* create_objects, _create_objects__wide, _create_objects__deep

NewName == <<"Existing_Folder", "RND", "SND", "AM", "Temp_Folder">>
NewType == <<"Folder", "RandomSequenceContainer", "Sound", "ActorMixer", "Folder">>
CreatedGuid == <<"{C1}", "{C2}", "{C3}", "{C4}", "{C5}">>

CreateNames ==
    {PyStr(""), PyStr("Temp_Folder")} \cup {PyList(SubSeq(NewName, 1, n)) : n \in 0..MaxNames}

CreateTypes ==
    {PyStr("Folder")} \cup {PyList(SubSeq(NewType, 1, n)) : n \in 0..MaxNames}

CreateMethods == {"wide", "deep", "tall"}

CreateParent == PyStr(Path[1])

\* What the remote application may do with one create call
CreateOutcomes == {"created", "failed", "no id"}

\* The assert on the two lists laid over one another lets the call go on
LensAgree_unchecked(req_names, req_types) == TRUE

\* assert len(req_names) == len(req_types)
LensAgree(req_names, req_types) == Len(req_names) = Len(req_types)

\* zip(names, types) stops with the shorter of the two
ZipLen(names, types) == IF Len(names) <= Len(types) THEN Len(names) ELSE Len(types)

\* The request of one create call of _create_objects__wide
WideCall(parent, name, type, on_name_conflict) ==
    [uri |-> "ak.wwise.core.object.create",
     query |-> PyDict(("parent" :> parent) @@ ("onNameConflict" :> PyStr(on_name_conflict))
                      @@ ("name" :> PyStr(name)) @@ ("type" :> PyStr(type)))]

\* The answer to one create call of _create_objects__wide, the k-th of the run
WideReply(outcome, name, k) ==
    CASE outcome = "created" -> PyDict(("id" :> PyStr(CreatedGuid[k])) @@ ("name" :> PyStr(name)))
      [] outcome = "no id" -> PyDict("name" :> PyStr(name))
      [] OTHER -> None

\* The chain _create_objects__deep lays into its query: pair k holds pair k+1 as
\* the one element of its 'children' list
RECURSIVE DeepChain(_, _, _)
DeepChain(names, types, k) ==
    LET own == ("name" :> PyStr(names[k])) @@ ("type" :> PyStr(types[k]))
    IN IF k < ZipLen(names, types)
       THEN own @@ ("children" :> PyList(<<PyDict(DeepChain(names, types, k + 1))>>))
       ELSE own

DeepQuery(parent, names, types, on_name_conflict) ==
    PyDict(("parent" :> parent) @@ ("onNameConflict" :> PyStr(on_name_conflict))
           @@ (IF ZipLen(names, types) = 0 THEN <<>> ELSE DeepChain(names, types, 1)))

\* The created objects as the remote application reports them: each with its id
\* and name, its created children in a list under 'children'
RECURSIVE CreatedChain(_, _)
CreatedChain(q, k) ==
    LET own == ("id" :> PyStr(CreatedGuid[k])) @@ ("name" :> q["name"])
    IN IF "children" \in DOMAIN q
       THEN PyDict(own @@ ("children" :>
                PyList(<<CreatedChain(q["children"].list[1].dict, k + 1)>>)))
       ELSE PyDict(own)

DeepReply(outcome, query) ==
    CASE outcome = "created" /\ "name" \in DOMAIN query.dict -> CreatedChain(query.dict, 1)
      [] outcome = "no id" -> PyDict("name" :> PyStr("?"))
      [] OTHER -> None

\* key in x: a key of a dict, an element of a list
PyIn(key, x) ==
    CASE x.t = "dict" -> key \in DOMAIN x.dict
      [] x.t = "list" -> \E i \in DOMAIN x.list : x.list[i] = PyStr(key)
      [] OTHER -> FALSE

\* yield root; while key in root: root = root[key]; yield root
RECURSIVE IterFrom(_, _)
IterFrom(root, key) ==
    <<root>> \o (IF PyIn(key, root) /\ root.t = "dict"
                 THEN IterFrom(root.dict[key], key) ELSE <<>>)

_iter_dict_depth(d, key) == IF d = None THEN <<>> ELSE IterFrom(d, key)

\* [obj['id'] for obj in objs if 'id' in obj]
RECURSIVE IdsOf(_)
IdsOf(objs) ==
    IF objs = <<>> THEN <<>>
    ELSE (IF PyIn("id", Head(objs)) THEN <<Head(objs).dict["id"]>> ELSE <<>>)
         \o IdsOf(Tail(objs))

\* What _create_objects__deep returns on the answer ret
DeepResult(ret) ==
    IF _check_fields(ret, {"id"}) THEN PyList(IdsOf(_iter_dict_depth(ret, "children")))
    ELSE PyList(<<>>)

\* create_objects(c, parent, n, ty, m) up to its dispatch on method, from the
\* state before the call: the arguments, where the call stands, and what it
\* has raised, returned or kept in its locals by then
CreateObjectsEntry(c, n, ty, m) ==
    LET rn == _ensure_str_list(n, None)
        rt == _ensure_str_list(ty, None)
        failed == IF ~_check_client(c) THEN "AssertionError"
                  ELSE IF rn.exc # "none" THEN rn.exc
                  ELSE IF rt.exc # "none" THEN rt.exc
                  ELSE IF ~LensAgree(rn.val.list, rt.val.list) THEN "AssertionError"
                  ELSE IF PyLen(n) = 0 THEN "none"
                  ELSE IF m \notin {"wide", "deep"} THEN "ValueError"
                  ELSE "none"
        empty == failed = "none" /\ PyLen(n) = 0
    IN [args |-> [op |-> "create_objects", client |-> c, parent |-> CreateParent,
                  names |-> n, types |-> ty, method |-> m, on_name_conflict |-> "merge"],
        exc |-> failed,
        pc |-> IF failed # "none" THEN "raised"
               ELSE IF empty THEN "returned"
               ELSE IF m = "wide" THEN "wide" ELSE "deep",
        result |-> IF empty THEN PyList(<<>>) ELSE None,
        locals |-> IF failed # "none" \/ empty THEN NoLocals
                   ELSE [req_names |-> rn.val.list, req_types |-> rt.val.list,
                         created_guids |-> <<>>]]

\* create_objects(...) up to its dispatch on method
CreateObjectsCall ==
    /\ Idle
    /\ \E c \in Clients, n \in CreateNames, ty \in CreateTypes, m \in CreateMethods :
         LET e == CreateObjectsEntry(c, n, ty, m)
         IN /\ args' = e.args
            /\ exc' = e.exc
            /\ pc' = e.pc
            /\ result' = e.result
            /\ locals' = e.locals
    /\ UNCHANGED <<earlier, wproj, stack, yielded, calls, replies>>

\* One turn of the loop of _create_objects__wide
CreateWideStep ==
    /\ pc = "wide"
    /\ Len(locals.created_guids) < ZipLen(locals.req_names, locals.req_types)
    /\ \E outcome \in CreateOutcomes :
         LET k == Len(locals.created_guids) + 1
             obj == WideReply(outcome, locals.req_names[k], k)
         IN /\ calls' = Append(calls, WideCall(args.parent, locals.req_names[k],
                                                locals.req_types[k], args.on_name_conflict))
            /\ replies' = Append(replies, obj)
            /\ locals' = [locals EXCEPT !.created_guids =
                            Append(@, IF _check_fields(obj, {"id"}) THEN obj.dict["id"] ELSE None)]
    /\ UNCHANGED <<earlier, wproj, pc, args, stack, yielded, result, exc>>

\* return created_guids
CreateWideReturn ==
    /\ pc = "wide"
    /\ Len(locals.created_guids) >= ZipLen(locals.req_names, locals.req_types)
    /\ result' = PyList(locals.created_guids)
    /\ pc' = "returned"
    /\ UNCHANGED <<earlier, wproj, args, locals, stack, yielded, calls, replies, exc>>

\* _create_objects__deep: the one call and what is made of its answer
CreateDeep ==
    /\ pc = "deep"
    /\ \E outcome \in CreateOutcomes :
         LET query == DeepQuery(args.parent, locals.req_names, locals.req_types,
                                args.on_name_conflict)
             ret == DeepReply(outcome, query)
         IN /\ calls' = Append(calls, [uri |-> "ak.wwise.core.object.create", query |-> query])
            /\ replies' = Append(replies, ret)
            /\ result' = DeepResult(ret)
    /\ pc' = "returned"
    /\ UNCHANGED <<earlier, wproj, args, locals, stack, yielded, exc>>

InitCreate ==
    /\ wproj = NoProject
    /\ Idle
    /\ earlier = NoEarlier

NextCreate ==
    \/ CreateObjectsCall
    \/ CreateWideStep
    \/ CreateWideReturn
    \/ CreateDeep

SpecCreate == InitCreate /\ [][NextCreate]_vars

---------------------------------------------------------------------------
\* A call with strings, and the same call again with one-element lists

\* [x] for the string x, any other value as it is
AsList(x) == IF x.t = "str" THEN PyList(<<x.str>>) ELSE x

\* types as a list; 'any' stays the marker it is
TypesAsList(types) == IF types = PyStr("any") THEN types ELSE AsList(types)

StringProjects == {w \in Projects : w.lacks = {}}

\* walk_wproj with a string for properties and a string for types
StringWalkArguments ==
    [op : {"walk_wproj"}, client : Clients,
     start : {PyStr(Guid[1]), PyList(<<Guid[2], Guid[1]>>)},
     properties : {PyStr("name"), PyStr("@Volume"), PyStr("")},
     types : {PyStr("Sound"), PyStr("any"), PyStr("")}]

StringWalkCall == WalkCallWith(StringWalkArguments)

\* create_objects with a string name and a string type
StringCreateCall ==
    /\ Idle
    /\ \E c \in Clients, n \in {PyStr("Temp_Folder"), PyStr("")},
          ty \in {PyStr("Folder"), PyStr("")}, m \in CreateMethods :
         LET e == CreateObjectsEntry(c, n, ty, m)
         IN /\ args' = e.args
            /\ exc' = e.exc
            /\ pc' = e.pc
            /\ result' = e.result
            /\ locals' = e.locals
    /\ UNCHANGED <<earlier, wproj, stack, yielded, calls, replies>>

\* What a call that is over has done
Done ==
    [op |-> args.op, args |-> args, pc |-> pc, exc |-> exc, calls |-> calls,
     replies |-> replies, yielded |-> yielded, result |-> result]

\* The walk with strings is over: the same walk is made with [p] and [T]
ListWalkCall ==
    /\ earlier.op = "none"
    /\ args.op = "walk_wproj"
    /\ pc \in {"done", "raised"}
    /\ earlier' = Done
    /\ args' = [args EXCEPT !.properties = AsList(@), !.types = TypesAsList(@)]
    /\ pc' = "created"
    /\ locals' = NoLocals
    /\ stack' = <<>>
    /\ yielded' = <<>>
    /\ calls' = <<>>
    /\ replies' = <<>>
    /\ result' = None
    /\ exc' = "none"
    /\ UNCHANGED wproj

\* create_objects with strings is over: the same call is made with [name]
\* and [type]
ListCreateCall ==
    /\ earlier.op = "none"
    /\ args.op = "create_objects"
    /\ pc \in {"returned", "raised"}
    /\ earlier' = Done
    /\ LET e == CreateObjectsEntry(args.client, AsList(args.names), AsList(args.types),
                                   args.method)
       IN /\ args' = e.args
          /\ exc' = e.exc
          /\ pc' = e.pc
          /\ result' = e.result
          /\ locals' = e.locals
    /\ stack' = <<>>
    /\ yielded' = <<>>
    /\ calls' = <<>>
    /\ replies' = <<>>
    /\ UNCHANGED wproj

InitString ==
    /\ wproj \in StringProjects
    /\ Idle
    /\ earlier = NoEarlier

NextString ==
    \/ StringWalkCall
    \/ StringCreateCall
    \/ ListWalkCall
    \/ ListCreateCall
    \/ WalkFirstNext
    \/ WalkResume
    \/ WalkFetchStart
    \/ WalkVisit
    \/ WalkFetchChild
    \/ WalkReturn
    \/ WalkStop
    \/ CreateWideStep
    \/ CreateWideReturn
    \/ CreateDeep

SpecString == InitString /\ [][NextString]_vars

---------------------------------------------------------------------------
\* What the claims about walk_wproj speak of, read off the project itself

RECURSIVE AncestorsOf(_, _)
AncestorsOf(w, o) ==
    IF w.parent[o] = 0 THEN {}
    ELSE {w.parent[o]} \cup AncestorsOf(w, w.parent[o])

\* The proper descendants of object s
Descendants(w, s) == {o \in Objs : s \in AncestorsOf(w, o)}

\* The object the start argument names, 0 when it names none
StartObj ==
    LET hit == {o \in Objs : args.start = PyStr(Guid[o]) \/ args.start = PyStr(Path[o])}
    IN IF hit = {} THEN 0 ELSE CHOOSE o \in hit : TRUE

ObjOfGuid(g) == CHOOSE o \in Objs : Guid[o] = g

\* The property names the caller asked for, in the caller's order
Requested ==
    IF args.properties = None THEN <<"id">>
    ELSE IF args.properties.t = "str" THEN <<args.properties.str>>
    ELSE args.properties.list

\* The types the caller's filter lets through
TypesWanted ==
    IF args.types = PyStr("any") THEN TypeNames
    ELSE IF args.types.t = "str" THEN {args.types.str}
    ELSE IF args.types.t = "list" THEN Range(args.types.list)
    ELSE {}

YieldedOf == {yielded[i].of : i \in DOMAIN yielded}

\* A walk over an existing start object, with a connected client, fully consumed
WalkConsumed ==
    /\ args.op = "walk_wproj"
    /\ args.client = "connected"
    /\ StartObj # 0
    /\ pc \in {"done", "raised"}

\* C1: a fully consumed walk with types='any' yields exactly one tuple per proper
\* descendant of the start: none omitted, none twice, the start itself never.
C1_AnyYieldsEveryDescendantOnce ==
    (WalkConsumed /\ args.types = PyStr("any")) =>
        /\ YieldedOf = {Guid[d] : d \in Descendants(wproj, StartObj)}
        /\ Len(yielded) = Cardinality(Descendants(wproj, StartObj))

\* C2: a fully consumed walk with a list of types yields exactly the descendants
\* of the start whose type is in the list, each once, whatever the types of the
\* objects between them and the start.
C2_ListYieldsMatchingDescendantsOnce ==
    (WalkConsumed /\ args.types.t = "list") =>
        LET want == {d \in Descendants(wproj, StartObj) : wproj.type[d] \in Range(args.types.list)}
        IN /\ YieldedOf = {Guid[d] : d \in want}
           /\ Len(yielded) = Cardinality(want)

\* C3: every yielded tuple has one entry per requested property, in the requested
\* order, entry j being the object's value of requested property j; the id and
\* the type of the object stand only where the caller asked for them.
C3_TupleAlignedWithRequested ==
    \A i \in DOMAIN yielded :
        LET o == ObjOfGuid(yielded[i].of)
            tup == yielded[i].tuple
        IN /\ Len(tup) = Len(Requested)
           /\ \A j \in DOMAIN tup :
                /\ HasProp(wproj, o, Requested[j])
                /\ tup[j] = PropVal(wproj, o, Requested[j])
                /\ tup[j] = PyStr(Guid[o]) => Requested[j] = "id"
                /\ tup[j] = PyStr(wproj.type[o]) => Requested[j] = "type"

\* C3 witness: with properties ['name', 'id'] (no 'type') two tuples were yielded
C3_Witness ==
    /\ args.op = "walk_wproj"
    /\ args.properties = PyList(<<"name", "id">>)
    /\ Len(yielded) >= 2
    /\ "type" \in Range(locals.props)

\* C4: an object visited by the walk that lacks a requested property is yielded
\* with None at that property's position, and the walk goes on to the end.
C4_MissingPropertyYieldsNone ==
    WalkConsumed =>
        /\ exc = "none"
        /\ \A d \in Descendants(wproj, StartObj) :
             wproj.type[d] \in TypesWanted =>
                \E i \in DOMAIN yielded :
                    /\ yielded[i].of = Guid[d]
                    /\ yielded[i].tuple =
                         [j \in DOMAIN Requested |->
                            IF HasProp(wproj, d, Requested[j])
                            THEN PropVal(wproj, d, Requested[j]) ELSE None]

\* C10: walk_wproj with a client that is None or disconnected raises ValueError
\* at the call: the caller never holds an iterator of it that has not raised.
C10_BadClientRaisesAtCall ==
    (args.op = "walk_wproj" /\ args.client # "connected") =>
        /\ pc # "created"
        /\ calls = <<>>

\* o and the objects above it
UpFrom(w, o) == {o} \cup AncestorsOf(w, o)

\* c1 stands before c2 in the children their common parent's fetch returned
SiblingBefore(w, c1, c2) ==
    /\ w.parent[c1] = w.parent[c2]
    /\ \E i, j \in DOMAIN ChildrenOf(w, w.parent[c1]) :
         /\ i < j
         /\ ChildrenOf(w, w.parent[c1])[i] = c1
         /\ ChildrenOf(w, w.parent[c1])[j] = c2

\* C14: the walk yields in depth-first pre-order: of two tuples of one start, the
\* later is never of an ancestor of the earlier's object, nor of an object in or
\* under a sibling fetched before the sibling the earlier's object is or is
\* under; and no tuple of an earlier start of the list follows one of a later.
C14_DepthFirstPreOrder ==
    args.op = "walk_wproj" =>
        \A i, j \in DOMAIN yielded :
            i < j =>
                /\ yielded[i].start <= yielded[j].start
                /\ yielded[i].start = yielded[j].start =>
                     LET a == ObjOfGuid(yielded[i].of)
                         b == ObjOfGuid(yielded[j].of)
                     IN /\ b \notin AncestorsOf(wproj, a)
                        /\ \A c1 \in UpFrom(wproj, b), c2 \in UpFrom(wproj, a) :
                             ~SiblingBefore(wproj, c1, c2)

\* C14 witness: a walk over the list of two starts came to its end under a top
\* object whose first child has a child of its own and a sibling after it
C14_Witness ==
    /\ args.op = "walk_wproj"
    /\ args.start = PyList(<<Guid[2], Guid[1]>>)
    /\ args.types = PyStr("any")
    /\ wproj.parent[3] = 2
    /\ wproj.parent[4] = 1
    /\ pc = "done"
    /\ Len(yielded) = 4

\* C15: a fully consumed walk over one start with D descendants issues D + 1
\* fetches, each of the children of one object: one of the start and one of
\* every descendant, passing the filter or not, none of them twice.
C15_OneFetchPerObject ==
    (WalkConsumed /\ Truthy(args.types)) =>
        /\ Len(calls) = Cardinality(Descendants(wproj, StartObj)) + 1
        /\ \A i \in DOMAIN calls : calls[i].query.select = "children"
        /\ {calls[i].query.from.v : i \in DOMAIN calls}
             = {args.start.str} \cup {Guid[d] : d \in Descendants(wproj, StartObj)}

\* The objects that the children relation leads to from the objects S
RECURSIVE ReachedFrom(_, _)
ReachedFrom(w, S) ==
    LET T == S \cup {c \in Objs : w.parent[c] \in S}
    IN IF T = S THEN S ELSE ReachedFrom(w, T)

\* The objects below o: its children and what they lead to
BelowObj(w, o) == ReachedFrom(w, {c \in Objs : w.parent[c] = o})

\* The start objects of the call
StartObjs ==
    LET given == IF args.start.t = "str" THEN {args.start.str}
                 ELSE IF args.start.t = "list" THEN Range(args.start.list) ELSE {}
    IN {o \in Objs : Guid[o] \in given \/ Path[o] \in given}

\* The children relation has a cycle that a start object leads to
CycleFromStart ==
    \E s \in StartObjs : \E c \in {s} \cup BelowObj(wproj, s) : c \in BelowObj(wproj, c)

\* A walk on a connected client with a start and types that are not empty
WalkBegun ==
    /\ args.op = "walk_wproj"
    /\ args.client = "connected"
    /\ Truthy(args.start)
    /\ Truthy(args.types)

\* The iterator has ended: it is exhausted or it has raised
WalkEnded == pc \in {"done", "raised"}

\* A measure of how far the walk has come: every step of the walk raises it,
\* so no walk comes to a state twice
WalkRank ==
    (CASE pc = "idle" -> 0
       [] pc = "created" -> 1
       [] pc = "suspended" -> 2
       [] pc = "running" -> 3
       [] OTHER -> 4)
    + 4 * Len(calls)
    + (IF stack # <<>> /\ Top.phase = "recurse" THEN 2 ELSE 0)
    - Len(stack)

\* The looped walk has a step to take: one of the two fetches, or another step
WalkCanStep ==
    \/ AtNextStart
    \/ AtRecursion
    \/ ENABLED (WalkCallLooped \/ WalkFirstNext \/ WalkResume \/ WalkVisit
                   \/ WalkReturn \/ WalkStop)

\* C16 as stated: the walk ends whenever the children relation from the starts
\* has no cycle (it goes on, never through a state twice, until it has ended),
\* and never ends when it has one.
C16_TerminatesIffAcyclic ==
    /\ [][WalkRank' > WalkRank]_vars
    /\ []((WalkBegun /\ ~CycleFromStart) => (WalkEnded \/ WalkCanStep))
    /\ []((WalkBegun /\ CycleFromStart) => ~WalkEnded)

\* C16 as amended: every walk ends (it goes on, never through a state twice,
\* until it has ended); on a relation without a cycle from the starts it never
\* meets the interpreter's recursion limit, and on one with such a cycle it
\* never comes to its normal end: it ends by an exception.
C16_EndsByExceptionOnCycle ==
    /\ [][WalkRank' > WalkRank]_vars
    /\ [](WalkEnded \/ WalkCanStep)
    /\ []((WalkBegun /\ ~CycleFromStart) => exc # "RecursionError")
    /\ []((WalkBegun /\ CycleFromStart) => pc # "done")

\* C16 witness: the walk over a cycle has met the recursion limit
C16_Witness ==
    /\ WalkBegun
    /\ CycleFromStart
    /\ pc = "raised"
    /\ exc = "RecursionError"
    /\ Len(yielded) >= RecursionLimit

\* The recursive call of the innermost loop body is about to fetch the children
\* of an object that has been deleted
AtDeletedObject ==
    /\ AtRecursion
    /\ ObjOfGuid(Head(Top.objs).dict["id"].str) \in wproj.gone

\* C17: the children fetch of an object the consumer has deleted gets no answer,
\* raises nothing and yields nothing, and leaves the walk at the rest of the
\* level fetched before; no tuple of a deleted object is yielded thereafter;
\* the walk goes on to its end, and where it is exhausted every matching object
\* under the starts that was not deleted has been yielded.
C17_DeletedBranchEndsQuietly ==
    /\ [][AtDeletedObject =>
            /\ replies' = Append(replies, None)
            /\ exc' = "none"
            /\ pc' = "running"
            /\ yielded' = yielded
            /\ stack' = Append(Below, [objs |-> Tail(Top.objs), phase |-> "check"])]_vars
    /\ [][Len(yielded') > Len(yielded) =>
            ObjOfGuid(yielded'[Len(yielded')].of) \notin wproj.gone]_vars
    /\ [][WalkRank' > WalkRank]_vars
    /\ [](WalkBegun => (WalkEnded \/ WalkCanStep \/ ENABLED ConsumerDelete))
    /\ [](pc = "done" =>
            \A s \in StartObjs : \A d \in UnderObj(wproj, s) \ wproj.gone :
                wproj.type[d] \in TypesWanted => Guid[d] \in YieldedOf)

\* C17 witness: the consumer deleted object 2, which had a child, the fetch of
\* its children got no answer, and the walk went on to yield its sibling and
\* came to its end
C17_Witness ==
    /\ args.op = "walk_wproj"
    /\ args.start = PyStr(Guid[1])
    /\ wproj.parent[3] = 2
    /\ wproj.parent[4] = 1
    /\ wproj.gone = {2, 3}
    /\ pc = "done"
    /\ YieldedOf = {Guid[2], Guid[4]}
    /\ \E i \in DOMAIN replies : replies[i] = None /\ calls[i].uri = "ak.wwise.core.object.get"

\* None, the empty string or the empty list
IsNoneOrEmpty(x) == x = None \/ x = PyStr("") \/ x = PyList(<<>>)

\* C19: with a connected client and a start or a types argument that is None
\* or empty, the walk raises nothing, neither at the call nor at the first
\* next(), yields no tuple and issues no remote call.
C19_EmptyStartOrTypesYieldsNothing ==
    ( /\ args.op = "walk_wproj"
      /\ args.client = "connected"
      /\ IsNoneOrEmpty(args.start) \/ IsNoneOrEmpty(args.types) ) =>
        /\ pc \in {"created", "done"}
        /\ exc = "none"
        /\ yielded = <<>>
        /\ calls = <<>>

\* C19 witness: the walk from an existing object with types=[] is exhausted
C19_Witness ==
    /\ args.op = "walk_wproj"
    /\ args.client = "connected"
    /\ StartObj = 1
    /\ args.types = PyList(<<>>)
    /\ pc = "done"

---------------------------------------------------------------------------
\* What the claim about get_bus_guid_from_name speaks of

\* The objects of type Bus under the Master-Mixer Hierarchy that bear the name
\* asked for
BusesNamed ==
    IF args.bus_name.t # "str" THEN {}
    ELSE { o \in Descendants(wproj, 1) :
             wproj.type[o] = "Bus" /\ wproj.name[o] = args.bus_name.str }

\* C12: get_bus_guid_from_name on a connected client returns the id of a Bus
\* of that name under the Master-Mixer Hierarchy when there is one, None when
\* there is none, never an object of another type; and the children of the
\* object it returns are not fetched: no remote call follows the match.
C12_BusOfThatNameOrNone ==
    (args.op = "get_bus_guid_from_name" /\ args.client = "connected"
        /\ pc \in {"returned", "raised", "done"}) =>
        /\ pc # "raised"
        /\ pc = "returned" =>
             /\ BusesNamed # {} => result \in {PyStr(Guid[o]) : o \in BusesNamed}
             /\ BusesNamed = {} => result = None
             /\ result # None =>
                  /\ yielded[Len(yielded)].tuple[1] = result
                  /\ \A i \in DOMAIN calls : calls[i].query.from.v # result.str

\* C12 witness: the bus found hangs under an auxiliary bus of the same name,
\* and a sibling of that auxiliary bus was left unwalked
C12_Witness ==
    /\ args.op = "get_bus_guid_from_name"
    /\ pc = "returned"
    /\ wproj.parent[3] = 2
    /\ wproj.parent[4] = 1
    /\ wproj.type[2] = "AuxBus"
    /\ wproj.name[2] = "Master Audio Bus"
    /\ wproj.name[3] = "Master Audio Bus"
    /\ result = PyStr(Guid[3])
    /\ Len(calls) = 2

---------------------------------------------------------------------------
\* What the claim about the bank inclusions speaks of

\* get_bank_inclusions_guids has returned or raised
BankGetEnded ==
    /\ args.op = "get_bank_inclusions_guids"
    /\ pc \in {"returned", "raised"}

\* The call before it was set_bank_inclusions on the same bank with the default
\* operation, and the application took it
AfterDefaultSet ==
    /\ earlier.op = "set_bank_inclusions"
    /\ earlier.args.inclusion_op = "default"
    /\ earlier.args.bank_guid = args.bank
    /\ earlier.reply # None

\* C13: after set_bank_inclusions with the default operation has set a bank's
\* inclusions to G, get_bank_inclusions_guids answered by the application for
\* that bank returns the ids of G, as many and in the same order; on an answer
\* without the 'inclusions' key it returns the empty list.
C13_GetReturnsWhatWasSet ==
    BankGetEnded =>
        /\ (AfterDefaultSet /\ replies[2] = RemoteGetInclusions(wproj, calls[2].query)) =>
             /\ pc = "returned"
             /\ result = PyList([i \in DOMAIN earlier.args.inclusion_guids |->
                                   PyStr(earlier.args.inclusion_guids[i])])
        /\ ~_check_fields(replies[Len(replies)], {"inclusions"}) =>
             /\ pc = "returned"
             /\ result = PyList(<<>>)

\* C13 witness: three ids set with the default operation and filter come
\* back in the order given
C13_Witness ==
    /\ BankGetEnded
    /\ AfterDefaultSet
    /\ Len(wproj.inclusions) = 3
    /\ earlier.args.inclusion_filter = None
    /\ calls[1].query.dict["operation"] = PyStr("replace")
    /\ replies[1] = PyDict(<<>>)
    /\ result = PyList(<<PyStr(Guid[3]), PyStr(Guid[1]), PyStr(Guid[2])>>)

---------------------------------------------------------------------------
\* What the claim about copy_properties speaks of

CopyRuns == args.op = "copy_properties"

\* The property names the application lists for the object of a guid
NamesOf(guid) ==
    IF CopyObjOf(guid) = 0 THEN {} ELSE Range(wproj.sheet[CopyObjOf(guid)].names)

NamesInBoth == NamesOf(args.copy_from_guid) \cap NamesOf(args.assign_to_guid)

\* The set-property calls issued so far, and the answered queries for the
\* value of property p
SetCalls == {i \in DOMAIN calls : calls[i].uri = "ak.wwise.core.object.setProperty"}

ValueQueries(p) ==
    {i \in DOMAIN replies : calls[i].uri = "ak.wwise.core.object.get" /\ calls[i].options = <<p>>}

\* The value of p on the source as the answer to query i gave it, None when the
\* answer gave none
ValueGot(p, i) ==
    IF replies[i] = None THEN None ELSE DictGet(replies[i].dict["return"].list[1], p)

\* Every set-property call is on the target, for a name both objects list, with
\* the value the source has, which is no reference and not None; no property is
\* set twice.
SetCallsFit ==
    /\ \A i \in SetCalls :
         LET q == calls[i].query.dict
             p == q["property"].str
         IN /\ q["object"] = PyStr(args.assign_to_guid)
            /\ p \in NamesInBoth
            /\ \E j \in ValueQueries(p) : j < i /\ q["value"] = ValueGot(p, j)
            /\ q["value"] = wproj.sheet[CopyObjOf(args.copy_from_guid)].val[p]
            /\ ~IsReference(q["value"])
            /\ q["value"] # None
    /\ \A i, j \in SetCalls :
         calls[i].query.dict["property"] = calls[j].query.dict["property"] => i = j

\* When copy_properties has returned, every name in both lists was asked for
\* once, and set when the answer gave a value that is no reference.
AllCopied ==
    pc = "returned" =>
        \A p \in NamesInBoth :
            /\ Cardinality(ValueQueries(p)) = 1
            /\ \A j \in ValueQueries(p) :
                 (ValueGot(p, j) # None /\ ~IsReference(ValueGot(p, j))) =>
                     \E i \in SetCalls : calls[i].query.dict["property"] = PyStr(p)

\* A step changes no property but one of the target that both objects list,
\* and that one to the value the source has.
OnlyCopiedChange ==
    \A o \in CopyObjs : \A p \in DOMAIN wproj.sheet[o].val :
        wproj'.sheet[o].val[p] # wproj.sheet[o].val[p] =>
            /\ Guid[o] = args.assign_to_guid
            /\ p \in NamesInBoth
            /\ wproj'.sheet[o].val[p] = wproj.sheet[CopyObjOf(args.copy_from_guid)].val[p]
            /\ \A r \in DOMAIN wproj.sheet[o].val \ {p} :
                 wproj'.sheet[o].val[r] = wproj.sheet[o].val[r]

NoSetCallOnSource ==
    \A i \in SetCalls : calls[i].query.dict["object"] # PyStr(args.copy_from_guid)

\* C18 as stated: copy_properties issues set-property calls only on dst, only
\* for the names in both lists whose value on src is no reference and not None,
\* each once with src's value, changes no other property, and issues no
\* set-property call on src.
C18_SetsOnlyOnDstNeverOnSrc ==
    /\ [](CopyRuns => (SetCallsFit /\ AllCopied))
    /\ [][CopyRuns => OnlyCopiedChange]_vars
    /\ [](CopyRuns => NoSetCallOnSource)

\* C18 amended: the same, with no set-property call on src when src and dst
\* are two objects; when they are one object the calls on dst are calls on src.
C18_SetsOnlyOnDst ==
    /\ [](CopyRuns => (SetCallsFit /\ AllCopied))
    /\ [][CopyRuns => OnlyCopiedChange]_vars
    /\ [](CopyRuns /\ args.copy_from_guid # args.assign_to_guid => NoSetCallOnSource)

\* C18 witness: of the two names both objects list, the reference is passed
\* over and the volume of 0 is set on the target, whose pitch stays as it was
C18_Witness ==
    /\ CopyRuns
    /\ pc = "returned"
    /\ args.copy_from_guid = Guid[1]
    /\ args.assign_to_guid = Guid[2]
    /\ NamesInBoth = {"OutputBus", "Volume"}
    /\ Cardinality(SetCalls) = 1
    /\ Len(calls) = 5
    /\ wproj.sheet[2].names = <<"Volume", "Pitch", "OutputBus">>
    /\ wproj.sheet[2].val["Volume"] = PyInt(0)
    /\ wproj.sheet[2].val["Pitch"] = PyInt(0)
    /\ wproj.sheet[2].val["OutputBus"] = Reference(1)

---------------------------------------------------------------------------
\* What the claim about strings in the place of lists speaks of

\* The call with lists is over, the call with strings before it
BothOver ==
    /\ earlier.op # "none"
    /\ pc \in {"done", "returned", "raised"}

\* The application answered alike the calls both runs made
AnsweredAlike ==
    \A i \in DOMAIN replies \cap DOMAIN earlier.replies : replies[i] = earlier.replies[i]

\* C11: a call with a string where a list of strings is taken does what the call
\* with the one-element list of that string does: walk_wproj issues the same
\* remote calls and yields the same tuples (types='any' staying the marker it
\* is), create_objects issues the same calls and ends alike on the same
\* answers, and with a string name and a string type whose one create call is
\* answered with an id it returns one identifier.
C11_StringAsOneElementList ==
    /\ (BothOver /\ AnsweredAlike) =>
         /\ calls = earlier.calls
         /\ yielded = earlier.yielded
         /\ pc = earlier.pc
         /\ exc = earlier.exc
         /\ result = earlier.result
    /\ (/\ args.op = "create_objects"
        /\ args.names.t = "str"
        /\ args.types.t = "str"
        /\ pc = "returned"
        /\ \A i \in DOMAIN replies : _check_fields(replies[i], {"id"})) =>
         /\ Len(result.list) = 1
         /\ result.list[1].t = "str"

---------------------------------------------------------------------------
\* What the claims about get_object speak of

\* A map whose 'return' is a non-empty list of maps
WellFormed(ret) ==
    /\ ret.t = "dict"
    /\ "return" \in DOMAIN ret.dict
    /\ ret.dict["return"].t = "list"
    /\ ret.dict["return"].list # <<>>
    /\ \A i \in DOMAIN ret.dict["return"].list : ret.dict["return"].list[i].t = "dict"

GetObjectAnswered ==
    /\ args.op = "get_object"
    /\ replies # <<>>

\* C5: on a missing or malformed answer get_object raises nothing and returns one
\* None per requested property; on a well-formed one entry i is the first
\* returned object's value of requested property i, None where it has none.
C5_MalformedReplyGivesNones ==
    GetObjectAnswered =>
        /\ exc = "none"
        /\ pc = "returned"
        /\ result.t = "tuple"
        /\ Len(result.tuple) = Len(Requested)
        /\ \A i \in DOMAIN Requested :
             result.tuple[i] =
                IF WellFormed(replies[1])
                   /\ Requested[i] \in DOMAIN replies[1].dict["return"].list[1].dict
                THEN replies[1].dict["return"].list[1].dict[Requested[i]]
                ELSE None

---------------------------------------------------------------------------
\* What the claims about create_objects speak of

\* The names and the types of the call, a single string counted as one
NamesGiven == IF args.names.t = "str" THEN <<args.names.str>> ELSE args.names.list

TypesGiven == IF args.types.t = "str" THEN <<args.types.str>> ELSE args.types.list

\* create_objects was called with a connected client and as many names as types
CreateCalled ==
    /\ args.op = "create_objects"
    /\ args.client = "connected"
    /\ Len(NamesGiven) = Len(TypesGiven)

\* C6: method 'wide' with N names issues N create calls, pair by pair in input
\* order under the one parent, and returns N entries, entry i the id answered
\* for pair i or None when the answer had none; a failed create stops nothing.
C6_WideOneCreatePerPair ==
    (CreateCalled /\ args.method = "wide" /\ pc = "returned") =>
        /\ Len(calls) = Len(NamesGiven)
        /\ \A i \in DOMAIN calls :
             /\ calls[i].uri = "ak.wwise.core.object.create"
             /\ calls[i].query.dict["parent"] = args.parent
             /\ calls[i].query.dict["name"] = PyStr(NamesGiven[i])
             /\ calls[i].query.dict["type"] = PyStr(TypesGiven[i])
        /\ result.t = "list"
        /\ Len(result.list) = Len(NamesGiven)
        /\ \A i \in DOMAIN result.list :
             result.list[i] = IF replies[i].t = "dict" /\ "id" \in DOMAIN replies[i].dict
                              THEN replies[i].dict["id"] ELSE None

\* The k-th object of the chain the remote application answered with, counted
\* from the outermost
RECURSIVE NthCreated(_, _)
NthCreated(ret, k) ==
    IF k = 1 THEN ret ELSE NthCreated(ret.dict["children"].list[1], k - 1)

\* The k-th object of the chain a deep request asks for
RECURSIVE NthRequested(_, _)
NthRequested(q, k) ==
    IF k = 1 THEN q ELSE NthRequested(q.dict["children"].list[1], k - 1)

\* C7: method 'deep' with N names issues one create call whose request nests
\* the N objects as a chain under the parent; when the application creates the
\* chain the N ids come back, outermost first; when it fails, nothing does.
C7_DeepReturnsEveryCreatedId ==
    (CreateCalled /\ args.method = "deep" /\ Truthy(args.names) /\ pc = "returned") =>
        /\ Len(calls) = 1
        /\ calls[1].query.dict["parent"] = args.parent
        /\ \A k \in DOMAIN NamesGiven :
             LET q == NthRequested(calls[1].query, k)
             IN /\ q.dict["name"] = PyStr(NamesGiven[k])
                /\ q.dict["type"] = PyStr(TypesGiven[k])
                /\ ("children" \in DOMAIN q.dict) = (k < Len(NamesGiven))
        /\ result.t = "list"
        /\ IF replies[1].t = "dict" /\ "id" \in DOMAIN replies[1].dict
           THEN /\ Len(result.list) = Len(NamesGiven)
                /\ \A k \in DOMAIN NamesGiven :
                     result.list[k] = NthCreated(replies[1], k).dict["id"]
           ELSE result.list = <<>>

\* C8: names and types of different lengths, a single string counted as one,
\* make create_objects raise at once, before any remote call.
C8_LengthMismatchRaisesBeforeAnyCall ==
    (args.op = "create_objects" /\ Len(NamesGiven) # Len(TypesGiven)) =>
        /\ pc = "raised"
        /\ exc # "none"
        /\ calls = <<>>

\* C8 witness: one name as a string against two types, on a connected client
C8_Witness ==
    /\ args.op = "create_objects"
    /\ args.client = "connected"
    /\ args.names = PyStr("Temp_Folder")
    /\ Len(TypesGiven) = 2
    /\ pc = "raised"
    /\ exc = "AssertionError"

\* C9: a method that is neither 'wide' nor 'deep' makes create_objects raise
\* ValueError at once, before any remote call, whatever names and types of
\* equal length it is given.
C9_BadMethodRaisesValueError ==
    (CreateCalled /\ args.method \notin {"wide", "deep"}) =>
        /\ pc = "raised"
        /\ exc = "ValueError"
        /\ calls = <<>>

====
